---- MODULE Spec2Model ----
(***************************************************************************)
(* Order/stock consistency engine of the order app: the Item, Order and    *)
(* OrderItem tables (models.py), OrderSerializer's field validation,       *)
(* validate_order_items, create and update (serializers.py), driven by     *)
(* the POST / PUT / PATCH / GET handlers of OrderViewSet (views.py) behind *)
(* its permission check, the post_save receiver of Order (signals.py), the *)
(* catalog and status changes the admin site allows (admin.py), and two    *)
(* requests served concurrently.                                           *)
(*                                                                         *)
(* Money is kept in cents (DecimalField with decimal_places=2), so 10.99   *)
(* is 1099.  A request body is a function whose DOMAIN is the set of keys  *)
(* the client supplied.                                                    *)
(***************************************************************************)
EXTENDS Integers, Sequences, FiniteSets, TLC

VARIABLES
    Item,        \* the Item table: id -> [name, price, quantity]
    Order,       \* the Order table: sequence indexed by primary key
    OrderItem,   \* the OrderItem table: per order pk, its rows in id order
    request,     \* the request being served (method "NONE" when idle)
    response,    \* the response of the request served (code 0 before it)
    before,      \* history: the Order and OrderItem tables as the handler found them
    stdout,      \* the lines the post_save receiver printed in the last operation
    price_at_commit, \* history: per order, the unit prices its line items were
                 \* committed at
    worker       \* the requests served concurrently: per worker, where it stands

vars == <<Item, Order, OrderItem, request, response, before, stdout,
          price_at_commit, worker>>

(* ------------------------------ bounds -------------------------------- *)

MaxOrders == 2
MaxLines == 2
MaxCount == 2
PizzaQuantity == 3
BurgerQuantity == 2

(* ------------------------- catalog and inputs ------------------------- *)

PizzaId == 1
BurgerId == 2
MissingItemId == 999
PizzaPrice == 1099
BurgerPrice == 899
SuppliedTotalPrice == 10000
TestPizzaQuantity == 50
TestBurgerQuantity == 30
HeldCount == 10
OtherHeldCount == 35
ExceedingCount == 51
NameMaxLength == 100
PhoneMaxLength == 20
NotifyThreshold == 5000
RoundPrice == 1000

ItemIds == {PizzaId, BurgerId}
Prices == {PizzaPrice, BurgerPrice}
Counts == 0..MaxCount

status_choices == {"new", "preparing", "ready", "delivered", "canceled"}

\* total_price is nullable: NULL is kept apart from every amount in cents
NullPrice == -1

\* one entry of a request's order_items list
Lines == [item_id : ItemIds \cup {MissingItemId}, count : Counts]

RECURSIVE SeqsUpTo(_, _)
SeqsUpTo(S, n) ==
    IF n = 0 THEN {<<>>}
    ELSE LET shorter == SeqsUpTo(S, n - 1)
         IN  shorter \cup {Append(s, x) : s \in {t \in shorter : Len(t) = n - 1}, x \in S}

\* a JSON value of the order_items key: null, or a list of entries
JsonNull == [type |-> "null"]
JsonList(l) == [type |-> "list", value |-> l]
ItemsPayloads == {JsonNull} \cup {JsonList(l) : l \in SeqsUpTo(Lines, MaxLines)}

CustomerNames == {"Jane Smith", "John Doe"}
Phones == {"9876543210", "1234567890"}
Addresses == {"456 Oak St", "123 Main St"}

NoData == [k \in {} |-> ""]
Key(k, vals) == {NoData} \cup {k :> v : v \in vals}

FullCustomer ==
    ("customer_name" :> "Jane Smith") @@ ("phone" :> "9876543210")
        @@ ("address" :> "456 Oak St")

\* bodies with full, valid customer data and every shape of order_items (absent,
\* null, every list), and two bodies a customer field alone makes invalid
StockData ==
    {FullCustomer @@ i : i \in Key("order_items", ItemsPayloads)}
    \cup {("customer_name" :> "") @@ FullCustomer @@ i :
             i \in Key("order_items", {JsonList(<<[item_id |-> PizzaId, count |-> 1]>>)})}

\* what the tests send for the read-only fields: nothing, or both of them
ReadOnlyData ==
    {NoData, ("status" :> "delivered") @@ ("total_price" :> SuppliedTotalPrice)}

\* bodies that vary the customer fields and the read-only fields, with order_items
\* absent or one fixed entry
FieldData ==
    { n @@ p @@ a @@ i @@ ro :
        n \in Key("customer_name", CustomerNames \cup {""}),
        p \in Key("phone", Phones),
        a \in Key("address", Addresses),
        i \in Key("order_items", {JsonList(<<[item_id |-> PizzaId, count |-> 1]>>)}),
        ro \in ReadOnlyData }

Entry(item_id, count) == [item_id |-> item_id, count |-> count]

\* the order_items lists of the tests: accepted ones (two items, one item, the same
\* item twice), the whole stock of an item, and the ones the tests expect refused
\* (51 of 50, an unknown item alone or beside a valid line, count 0 and -1, empty)
TestLists ==
    { <<Entry(PizzaId, 2), Entry(BurgerId, 1)>>,
      <<Entry(BurgerId, 3)>>,
      <<Entry(PizzaId, 2), Entry(BurgerId, 3)>>,
      <<Entry(PizzaId, 1), Entry(PizzaId, 2)>>,
      <<Entry(PizzaId, 2)>>,
      <<Entry(PizzaId, TestPizzaQuantity)>>,
      <<Entry(PizzaId, ExceedingCount)>>,
      <<Entry(MissingItemId, 1)>>,
      <<Entry(PizzaId, 2), Entry(MissingItemId, 1)>>,
      <<Entry(PizzaId, 0)>>,
      <<Entry(PizzaId, -1)>>,
      <<>> }

\* the tests' bodies: full customer data with order_items absent, null or one of the
\* lists, and the body with an empty customer_name
TestData ==
    {FullCustomer @@ i :
        i \in Key("order_items", {JsonNull} \cup {JsonList(l) : l \in TestLists})}
    \cup {("customer_name" :> "") @@ FullCustomer
            @@ ("order_items" :> JsonList(<<Entry(PizzaId, 1)>>))}

\* the callers: the user the tests create and authenticate, and no credentials
TestUser == "testuser"
AnonymousUser == "AnonymousUser"

\* requests of the authenticated user
RequestsOf(bodies, methods) ==
    [method : {"POST"} \cap methods, pk : {0}, data : bodies, user : {TestUser}]
    \cup [method : {"PUT", "PATCH"} \cap methods, pk : 1..MaxOrders, data : bodies,
          user : {TestUser}]

StockRequests == RequestsOf(StockData, {"POST", "PUT"})
FieldRequests == RequestsOf(FieldData, {"POST", "PUT", "PATCH"})
TestRequests == RequestsOf(TestData, {"POST", "PUT"})

NoRequest == [method |-> "NONE", pk |-> 0, data |-> NoData, user |-> AnonymousUser]
NoResponse == [code |-> 0, errors |-> {}, pk |-> 0]

\* rest_framework.permissions.SAFE_METHODS, as far as the viewset routes them
SAFE_METHODS == {"GET"}

Workers == {1, 2}
IdleWorker == [pc |-> "idle", request |-> NoRequest, seen |-> 0, code |-> 0]

(* ------------------------- field validation --------------------------- *)

\* a serializer CharField built from a model CharField/TextField: required unless
\* the update is partial, never blank, bounded by max_length (0: unbounded)
CharFieldErrors(data, key, max_length, partial) ==
    IF key \notin DOMAIN data
    THEN IF partial THEN {} ELSE {<<key, "required">>}
    ELSE IF data[key] = "" THEN {<<key, "blank">>}
    ELSE IF max_length > 0 /\ Len(data[key]) > max_length THEN {<<key, "max_length">>}
    ELSE {}

\* mutant: only a negative count is refused
validate_count_allowing_zero(count) == ~(count < 0)

\* OrderItemSerializer.validate_count
validate_count(count) == ~(count <= 0)

\* mutant: item_id is a plain integer, not looked up
item_id_unchecked(item_id) == TRUE

\* OrderItemSerializer.item_id: the primary key is looked up in Item.objects.all()
item_id_exists(item_id) == item_id \in DOMAIN Item

\* one entry of the list, as OrderItemSerializer validates it
EntryErrors(entry) ==
    (IF item_id_exists(entry.item_id) THEN {} ELSE {"does_not_exist"})
    \cup (IF validate_count(entry.count) THEN {} ELSE {"count"})

\* the validated form of an entry: source="item" resolves item_id to the Item
ToInternal(entry) == [item |-> entry.item_id, count |-> entry.count]

RECURSIVE SumCounts(_)
SumCounts(rows) ==
    IF rows = <<>> THEN 0 ELSE Head(rows).count + SumCounts(Tail(rows))

RowsOfItem(rows, item) == SelectSeq(rows, LAMBDA r : r.item = item)

RECURSIVE ConsumedIn(_, _, _)
\* Sum("order_items__count") of one item over the orders 1..n
ConsumedIn(table, item, n) ==
    IF n = 0 THEN 0
    ELSE SumCounts(RowsOfItem(table[n], item)) + ConsumedIn(table, item, n - 1)

\* mutant: the line items of canceled orders are not counted
consumed_count_non_canceled(item) ==
    ConsumedIn([o \in 1..Len(OrderItem) |->
                   IF Order[o].status = "canceled" THEN <<>> ELSE OrderItem[o]],
               item, Len(OrderItem))

consumed_count(item) == ConsumedIn(OrderItem, item, Len(OrderItem))

\* mutant: the consumption of the stored line items is not subtracted
remaining_quantity_ignoring_consumed(item) == Item[item].quantity

\* the annotation remaining_quantity=F("quantity") - Coalesce(F("consumed_count"), 0)
remaining_quantity(item) == Item[item].quantity - consumed_count(item)

\* mutant: the carve-back is forgotten
current_count_forgotten(instance, item) == 0

\* self.instance.order_items.get(order_id=..., item_id=...).count, with its outcomes:
\* no row (DoesNotExist, caught: 0), one row (its count), several rows
\* (MultipleObjectsReturned, not caught: -1)
current_count(instance, item) ==
    IF instance = 0 THEN 0
    ELSE LET rows == RowsOfItem(OrderItem[instance], item)
         IN  IF Len(rows) = 0 THEN 0
             ELSE IF Len(rows) = 1 THEN rows[1].count
             ELSE -1

\* mutant: asking for exactly what is left is refused too
enough_stock_strict(remaining, current, requested) ==
    ~(remaining + current <= requested)

\* the stock test of one requested line
enough_stock(remaining, current, requested) == ~(remaining + current < requested)

RECURSIVE validate_order_items(_, _, _)
\* OrderSerializer.validate_order_items from entry k on: <<"ok">>, or the first
\* failure: "Item with ID ... does not exist.", the exception that escapes, or
\* "Not enough stock for item <name>."
validate_order_items(order_items, instance, k) ==
    IF k > Len(order_items) THEN <<"ok">>
    ELSE LET item_id == order_items[k].item
             requested_count == order_items[k].count
         IN  IF item_id \notin DOMAIN Item THEN <<"item_does_not_exist">>
             ELSE IF current_count(instance, item_id) = -1
                  THEN <<"MultipleObjectsReturned">>
             ELSE IF ~enough_stock(remaining_quantity(item_id),
                                   current_count(instance, item_id), requested_count)
                  THEN <<"stock", Item[item_id].name>>
             ELSE validate_order_items(order_items, instance, k + 1)

\* the order_items field (many=True, required=False) followed by validate_order_items
OrderItemsErrors(data, instance) ==
    IF "order_items" \notin DOMAIN data THEN {}
    ELSE IF data.order_items.type = "null" THEN {<<"order_items", "null">>}
    ELSE LET l == data.order_items.value
             bad == UNION {EntryErrors(l[k]) : k \in 1..Len(l)}
         IN  IF bad # {} THEN {<<"order_items", e>> : e \in bad}
             ELSE LET v == validate_order_items([k \in 1..Len(l) |-> ToInternal(l[k])],
                                                instance, 1)
                  IN  IF v = <<"ok">> THEN {} ELSE {<<"order_items">> \o v}

\* serializer.is_valid(): the errors of every writable field
Errors(data, instance, partial) ==
    CharFieldErrors(data, "customer_name", NameMaxLength, partial)
    \cup CharFieldErrors(data, "phone", PhoneMaxLength, partial)
    \cup CharFieldErrors(data, "address", 0, partial)
    \cup OrderItemsErrors(data, instance)

\* Meta.read_only_fields: what the client sends for them never reaches validated_data
read_only_fields == {"total_price", "created_at", "status"}

validated_data(data) ==
    [k \in DOMAIN data \ read_only_fields |->
        IF k = "order_items"
        THEN [i \in 1..Len(data[k].value) |-> ToInternal(data[k].value[i])]
        ELSE data[k]]

(* --------------------------- persistence ------------------------------ *)

RECURSIVE TotalOf_ignoring_count(_)
\* mutant: the unit price is added once per row, whatever its count
TotalOf_ignoring_count(rows) ==
    IF rows = <<>> THEN 0
    ELSE Item[Head(rows).item].price + TotalOf_ignoring_count(Tail(rows))

RECURSIVE TotalOf(_)
\* total_price += order_item.item.price * order_item.count, over the rows created
TotalOf(rows) ==
    IF rows = <<>> THEN 0
    ELSE Item[Head(rows).item].price * Head(rows).count + TotalOf(Tail(rows))

\* dict.get(k, default) / dict.pop(k, default)
Get(d, k, default) == IF k \in DOMAIN d THEN d[k] ELSE default

\* mutant: the receiver fires from 50.00 on
notify_order_total_price_from_threshold(instance) ==
    IF instance.total_price # NullPrice /\ instance.total_price # 0
       /\ instance.total_price >= NotifyThreshold
    THEN <<instance.phone>> ELSE <<>>

\* signals.notify_order_total_price, the post_save receiver of Order: what one save
\* of `instance` prints (the phone the SMS goes to), when total_price is truthy and
\* above 50
notify_order_total_price(instance) ==
    IF instance.total_price # NullPrice /\ instance.total_price # 0
       /\ instance.total_price > NotifyThreshold
    THEN <<instance.phone>> ELSE <<>>

\* history: the unit price of every item the rows reference, as read at this commit
PricesOf(rows) == [i \in {rows[k].item : k \in 1..Len(rows)} |-> Item[i].price]

\* mutant: status is taken from the request when it supplies one
create_status_writable(vd) ==
    LET order == [customer_name |-> vd.customer_name,
                  phone |-> vd.phone,
                  address |-> vd.address,
                  total_price |-> TotalOf(Get(vd, "order_items", <<>>)),
                  status |-> Get(request.data, "status", "new")]
    IN  /\ Order' = Append(Order, order)
        /\ OrderItem' = Append(OrderItem, Get(vd, "order_items", <<>>))
        /\ stdout' = notify_order_total_price(order)
        /\ price_at_commit' =
               Append(price_at_commit, PricesOf(Get(vd, "order_items", <<>>)))

RECURSIVE MergedLines(_)
\* the rows with every later row of an item folded into the item's first row
MergedLines(rows) ==
    IF rows = <<>> THEN <<>>
    ELSE LET item == Head(rows).item
             rest == SelectSeq(Tail(rows), LAMBDA r : r.item # item)
         IN  <<[item |-> item, count |-> SumCounts(RowsOfItem(rows, item))]>>
                \o MergedLines(rest)

\* mutant: one OrderItem row per item, the counts of its lines added up
create_merging_duplicates(vd) ==
    LET order_items_data == MergedLines(Get(vd, "order_items", <<>>))
        order == [customer_name |-> vd.customer_name,
                  phone |-> vd.phone,
                  address |-> vd.address,
                  total_price |-> TotalOf(order_items_data),
                  status |-> "new"]
    IN  /\ Order' = Append(Order, order)
        /\ OrderItem' = Append(OrderItem, order_items_data)
        /\ stdout' = notify_order_total_price(order)
        /\ price_at_commit' = Append(price_at_commit, PricesOf(order_items_data))

\* OrderSerializer.create: the Order row (status forced to "new", total_price still
\* NULL: a first save), one OrderItem row per entry, then total_price saved (a second
\* save); each save runs the post_save receiver
create(vd) ==
    LET order_items_data == Get(vd, "order_items", <<>>)
        order == [customer_name |-> vd.customer_name,
                  phone |-> vd.phone,
                  address |-> vd.address,
                  total_price |-> TotalOf(order_items_data),
                  status |-> "new"]
    IN  /\ Order' = Append(Order, order)
        /\ OrderItem' = Append(OrderItem, order_items_data)
        /\ stdout' = notify_order_total_price([order EXCEPT !.total_price = NullPrice])
                         \o notify_order_total_price(order)
        /\ price_at_commit' = Append(price_at_commit, PricesOf(order_items_data))

\* the order's rows become `rows`, and instance.save() writes the customer fields
\* (validated_data.get(k, instance.k)), total_price and the untouched status
SaveWith(instance, vd, rows, total_price) ==
    LET saved == [customer_name |-> Get(vd, "customer_name", Order[instance].customer_name),
                  phone |-> Get(vd, "phone", Order[instance].phone),
                  address |-> Get(vd, "address", Order[instance].address),
                  total_price |-> total_price,
                  status |-> Order[instance].status]
    IN  /\ Order' = [Order EXCEPT ![instance] = saved]
        /\ OrderItem' = [OrderItem EXCEPT ![instance] = rows]
        /\ stdout' = notify_order_total_price(saved)
        /\ price_at_commit' =
               IF "order_items" \in DOMAIN vd
               THEN [price_at_commit EXCEPT ![instance] = PricesOf(rows)]
               ELSE price_at_commit

\* mutant: total_price is recomputed from the stored rows on every save
update_recomputes(instance, vd) ==
    LET rows == Get(vd, "order_items", OrderItem[instance])
    IN  SaveWith(instance, vd, rows, TotalOf(rows))

\* mutant: the new rows are added to the order's rows, which are not deleted
update_merges(instance, vd) ==
    LET rows == OrderItem[instance] \o Get(vd, "order_items", <<>>)
    IN  SaveWith(instance, vd, rows,
                 IF "order_items" \in DOMAIN vd THEN TotalOf(rows)
                 ELSE Order[instance].total_price)

\* mutant: order_items defaults to the empty list, as it does in create
update_defaults_to_empty(instance, vd) ==
    LET rows == Get(vd, "order_items", <<>>)
    IN  SaveWith(instance, vd, rows, TotalOf(rows))

\* OrderSerializer.update: customer fields taken from validated_data when present;
\* with order_items present the order's rows are deleted and created anew and
\* total_price recomputed; then instance.save()
update(instance, vd) ==
    LET replaced == "order_items" \in DOMAIN vd
    IN  SaveWith(instance, vd,
                 IF replaced THEN vd.order_items ELSE OrderItem[instance],
                 IF replaced THEN TotalOf(vd.order_items)
                 ELSE Order[instance].total_price)

(* ------------------------------ handlers ------------------------------ *)

Idle == request.method = "NONE"
Pending == request.method # "NONE" /\ response.code = 0

Snapshot == [Order |-> Order, OrderItem |-> OrderItem]
NoSnapshot == [Order |-> <<>>, OrderItem |-> <<>>]

Unhandled(errors) == \E e \in errors : e[2] = "MultipleObjectsReturned"

\* mutant: a refused Create leaves the Order row it had already inserted
Refuse_after_insert(errors) ==
    /\ response' = [code |-> IF Unhandled(errors) THEN 500 ELSE 400,
                    errors |-> errors, pk |-> request.pk]
    /\ IF request.method = "POST"
       THEN /\ Order' = Append(Order, [customer_name |-> "", phone |-> "",
                                       address |-> "", total_price |-> NullPrice,
                                       status |-> "new"])
            /\ OrderItem' = Append(OrderItem, <<>>)
            /\ price_at_commit' = Append(price_at_commit, <<>>)
       ELSE UNCHANGED <<Order, OrderItem, price_at_commit>>
    /\ stdout' = <<>>

\* the response of a request that validation stopped: 400 with the errors, or 500
\* when an exception escaped the serializer
Refuse(errors) ==
    /\ response' = [code |-> IF Unhandled(errors) THEN 500 ELSE 400,
                    errors |-> errors, pk |-> request.pk]
    /\ stdout' = <<>>
    /\ UNCHANGED <<Order, OrderItem, price_at_commit>>

\* mutant: AllowAny
has_permission_allow_any(req) == TRUE

\* IsAuthenticatedOrReadOnly.has_permission
has_permission(req) == req.method \in SAFE_METHODS \/ req.user # AnonymousUser

\* a response that writes nothing: 401 (permission denied to a caller without
\* credentials), 404 (get_object() found no order), 200 (a read)
Answer(code) ==
    /\ response' = [code |-> code, errors |-> {}, pk |-> request.pk]
    /\ stdout' = <<>>
    /\ UNCHANGED <<Order, OrderItem, price_at_commit>>

\* a client sends a request
Receive(requests) ==
    /\ Idle
    /\ \E req \in requests :
          /\ req.method = "POST" => Len(Order) < MaxOrders
          /\ request' = req
    /\ UNCHANGED <<Item, Order, OrderItem, response, before, stdout,
                   price_at_commit, worker>>

\* CreateModelMixin.create: the permission check, is_valid(raise_exception=True),
\* serializer.save()
HandleCreate ==
    /\ Pending
    /\ request.method = "POST"
    /\ before' = Snapshot
    /\ IF ~has_permission(request) THEN Answer(401)
       ELSE LET errors == Errors(request.data, 0, FALSE)
            IN  IF errors # {} THEN Refuse(errors)
                ELSE /\ create(validated_data(request.data))
                     /\ response' = [code |-> 201, errors |-> {}, pk |-> Len(Order) + 1]
    /\ UNCHANGED <<Item, request, worker>>

\* UpdateModelMixin.update / partial_update: the permission check, get_object(),
\* is_valid, serializer.save()
HandleUpdate ==
    /\ Pending
    /\ request.method \in {"PUT", "PATCH"}
    /\ before' = Snapshot
    /\ IF ~has_permission(request) THEN Answer(401)
       ELSE IF request.pk \notin 1..Len(Order) THEN Answer(404)
       ELSE LET errors == Errors(request.data, request.pk, request.method = "PATCH")
            IN  IF errors # {} THEN Refuse(errors)
                ELSE /\ update(request.pk, validated_data(request.data))
                     /\ response' = [code |-> 200, errors |-> {}, pk |-> request.pk]
    /\ UNCHANGED <<Item, request, worker>>

\* ListModelMixin.list and RetrieveModelMixin.retrieve: safe methods, nothing written
HandleRead ==
    /\ Pending
    /\ request.method = "GET"
    /\ before' = Snapshot
    /\ IF ~has_permission(request) THEN Answer(401)
       ELSE IF request.pk # 0 /\ request.pk \notin 1..Len(Order) THEN Answer(404)
       ELSE Answer(200)
    /\ UNCHANGED <<Item, request, worker>>

\* the response leaves; the request is over
Respond ==
    /\ response.code # 0
    /\ request' = NoRequest
    /\ response' = NoResponse
    /\ before' = NoSnapshot
    /\ stdout' = <<>>
    /\ UNCHANGED <<Item, Order, OrderItem, price_at_commit, worker>>

\* the catalog changes an item's unit price (admin.py registers Item)
ChangePrice ==
    /\ Idle
    /\ \E i \in DOMAIN Item, p \in Prices :
          /\ p # Item[i].price
          /\ Item' = [Item EXCEPT ![i].price = p]
    /\ UNCHANGED <<Order, OrderItem, request, response, before, stdout,
                   price_at_commit, worker>>

\* the catalog deletes an item (admin.py registers Item): on_delete=CASCADE removes
\* every OrderItem row that references it; no Order is saved
DeleteItem ==
    /\ Idle
    /\ \E i \in DOMAIN Item :
          /\ Item' = [j \in DOMAIN Item \ {i} |-> Item[j]]
          /\ OrderItem' = [o \in 1..Len(OrderItem) |->
                              SelectSeq(OrderItem[o], LAMBDA r : r.item # i)]
    /\ UNCHANGED <<Order, request, response, before, stdout, price_at_commit, worker>>

\* the status of an order is set to any of the choices (admin.py registers Order);
\* the save runs the post_save receiver
SetStatus ==
    /\ Idle
    /\ \E o \in 1..Len(Order), st \in status_choices :
          /\ st # Order[o].status
          /\ Order' = [Order EXCEPT ![o].status = st]
          /\ stdout' = notify_order_total_price(Order'[o])
    /\ UNCHANGED <<Item, OrderItem, request, response, before, price_at_commit, worker>>

Init ==
    /\ Item = (PizzaId :> [name |-> "Pizza", price |-> PizzaPrice,
                           quantity |-> PizzaQuantity])
              @@ (BurgerId :> [name |-> "Burger", price |-> BurgerPrice,
                               quantity |-> BurgerQuantity])
    /\ Order = <<>>
    /\ OrderItem = <<>>
    /\ request = NoRequest
    /\ response = NoResponse
    /\ before = NoSnapshot
    /\ stdout = <<>>
    /\ price_at_commit = [o \in 1..Len(Order) |-> <<>>]
    /\ worker = [w \in Workers |-> IdleWorker]

\* the catalog of the tests' setUp: Pizza 10.99 x 50, Burger 8.99 x 30, no order yet
InitTests ==
    /\ Item = (PizzaId :> [name |-> "Pizza", price |-> PizzaPrice,
                           quantity |-> TestPizzaQuantity])
              @@ (BurgerId :> [name |-> "Burger", price |-> BurgerPrice,
                               quantity |-> TestBurgerQuantity])
    /\ Order = <<>>
    /\ OrderItem = <<>>
    /\ request = NoRequest
    /\ response = NoResponse
    /\ before = NoSnapshot
    /\ stdout = <<>>
    /\ price_at_commit = [o \in 1..Len(Order) |-> <<>>]
    /\ worker = [w \in Workers |-> IdleWorker]

\* the stock engine: every shape of order_items, fixed prices
Next == Receive(StockRequests) \/ HandleCreate \/ HandleUpdate \/ Respond

Spec == Init /\ [][Next]_vars

\* the customer fields and the read-only fields
NextFields == Receive(FieldRequests) \/ HandleCreate \/ HandleUpdate \/ Respond

SpecFields == Init /\ [][NextFields]_vars

\* the tests' requests on the tests' catalog, while unit prices change
NextTests ==
    Receive(TestRequests) \/ HandleCreate \/ HandleUpdate \/ Respond \/ ChangePrice

SpecTests == InitTests /\ [][NextTests]_vars

\* the tests' requests on the tests' catalog, while the catalog changes unit prices
\* and deletes items
NextCatalog ==
    Receive(TestRequests) \/ HandleCreate \/ HandleUpdate \/ Respond
        \/ ChangePrice \/ DeleteItem

SpecCatalog == InitTests /\ [][NextCatalog]_vars

\* the fixture of test_order_serializer_update_stock_validation: Pizza 50, Burger 30,
\* an order holding 10 Pizza, another holding 35 Pizza (rows made with objects.create,
\* so total_price is NULL)
InitCarveBack ==
    /\ Item = (PizzaId :> [name |-> "Pizza", price |-> PizzaPrice,
                           quantity |-> TestPizzaQuantity])
              @@ (BurgerId :> [name |-> "Burger", price |-> BurgerPrice,
                               quantity |-> TestBurgerQuantity])
    /\ Order = << [customer_name |-> "Test User", phone |-> "1234567890",
                   address |-> "Test Address", total_price |-> NullPrice,
                   status |-> "new"],
                  [customer_name |-> "Other User", phone |-> "0987654321",
                   address |-> "Other Address", total_price |-> NullPrice,
                   status |-> "new"] >>
    /\ OrderItem = << <<[item |-> PizzaId, count |-> HeldCount]>>,
                      <<[item |-> PizzaId, count |-> OtherHeldCount]>> >>
    /\ request = NoRequest
    /\ response = NoResponse
    /\ before = NoSnapshot
    /\ stdout = <<>>
    /\ price_at_commit = [o \in 1..Len(Order) |-> <<>>]
    /\ worker = [w \in Workers |-> IdleWorker]

\* updates of either order to one Pizza line of any count up to 51
CarveBackRequests ==
    [method : {"PUT"}, pk : {1, 2},
     data : {FullCustomer
               @@ ("order_items" :> JsonList(<<[item_id |-> PizzaId, count |-> r]>>)) :
             r \in 1..ExceedingCount},
     user : {TestUser}]

NextCarveBack == Receive(CarveBackRequests) \/ HandleUpdate \/ Respond

SpecCarveBack == InitCarveBack /\ [][NextCarveBack]_vars

\* the fixture of OrderViewSetTests.setUp: Pizza 50, Burger 30, John Doe's order
\* holding 2 Pizza (rows made with objects.create, so total_price is NULL)
InitView ==
    /\ Item = (PizzaId :> [name |-> "Pizza", price |-> PizzaPrice,
                           quantity |-> TestPizzaQuantity])
              @@ (BurgerId :> [name |-> "Burger", price |-> BurgerPrice,
                               quantity |-> TestBurgerQuantity])
    /\ Order = << [customer_name |-> "John Doe", phone |-> "1234567890",
                   address |-> "123 Main St", total_price |-> NullPrice,
                   status |-> "new"] >>
    /\ OrderItem = << <<[item |-> PizzaId, count |-> 2]>> >>
    /\ request = NoRequest
    /\ response = NoResponse
    /\ before = NoSnapshot
    /\ stdout = <<>>
    /\ price_at_commit = << <<>> >>
    /\ worker = [w \in Workers |-> IdleWorker]

\* the bodies of the view tests: a name alone, full data with one Pizza, with two
\* Burger, and with 51 Pizza of 50
ViewData ==
    {("customer_name" :> "Jane Smith")}
    \cup {FullCustomer @@ ("order_items" :> JsonList(l)) :
             l \in {<<Entry(PizzaId, 1)>>, <<Entry(BurgerId, 2)>>,
                     <<Entry(PizzaId, ExceedingCount)>>}}

\* the writes and the reads (list: pk 0; retrieve, also of an order that is not
\* there) of a caller with and without credentials
ViewRequests ==
    [method : {"POST"}, pk : {0}, data : ViewData, user : {TestUser, AnonymousUser}]
    \cup [method : {"PUT", "PATCH"}, pk : 1..MaxOrders, data : ViewData,
          user : {TestUser, AnonymousUser}]
    \cup [method : {"GET"}, pk : 0..(MaxOrders + 1), data : {NoData},
          user : {TestUser, AnonymousUser}]

NextView ==
    Receive(ViewRequests) \/ HandleCreate \/ HandleUpdate \/ HandleRead \/ Respond

SpecView == InitView /\ [][NextView]_vars

RECURSIVE SumOver(_, _)
SumOver(f, n) == IF n = 0 THEN 0 ELSE f[n] + SumOver(f, n - 1)

\* the sum of count over the rows of a table that reference an item
Held(table, item) ==
    SumOver([n \in 1..Len(table) |->
                SumOver([k \in 1..Len(table[n]) |->
                            IF table[n][k].item = item THEN table[n][k].count ELSE 0],
                        Len(table[n]))],
            Len(table))

\* a catalog whose Pizza costs 10.00 (tests.py), so that 5 of them cost the 50.00 of
\* the receiver's threshold, and one order made with objects.create (total_price NULL)
InitNotify ==
    /\ Item = (PizzaId :> [name |-> "Pizza", price |-> RoundPrice,
                           quantity |-> TestPizzaQuantity])
              @@ (BurgerId :> [name |-> "Burger", price |-> BurgerPrice,
                               quantity |-> TestBurgerQuantity])
    /\ Order = << [customer_name |-> "John Doe", phone |-> "1234567890",
                   address |-> "123 Main St", total_price |-> NullPrice,
                   status |-> "new"] >>
    /\ OrderItem = << <<[item |-> PizzaId, count |-> 2]>> >>
    /\ request = NoRequest
    /\ response = NoResponse
    /\ before = NoSnapshot
    /\ stdout = <<>>
    /\ price_at_commit = << <<>> >>
    /\ worker = [w \in Workers |-> IdleWorker]

\* bodies whose totals lie below, on and above the threshold (20.00, 50.00, 60.00, and
\* 0 without order_items), a body that exceeds the stock, and a phone alone
NotifyData ==
    {FullCustomer @@ i :
        i \in Key("order_items",
                  {JsonList(<<Entry(PizzaId, c)>>) : c \in {2, 5, 6, ExceedingCount}})}
    \cup {("phone" :> "1234567890")}

NotifyRequests == RequestsOf(NotifyData, {"POST", "PUT", "PATCH"})

NextNotify == Receive(NotifyRequests) \/ HandleCreate \/ HandleUpdate \/ Respond

SpecNotify == InitNotify /\ [][NextNotify]_vars

\* bodies with one Pizza line: 2, the whole stock, and 51 of 50
StatusData ==
    {FullCustomer @@ ("order_items" :> JsonList(<<Entry(PizzaId, c)>>)) :
        c \in {2, TestPizzaQuantity, ExceedingCount}}

StatusRequests == RequestsOf(StatusData, {"POST", "PUT"})

\* the tests' catalog, requests for Pizza, and orders changing status in between
NextStatus ==
    Receive(StatusRequests) \/ HandleCreate \/ HandleUpdate \/ Respond \/ SetStatus

SpecStatus == InitTests /\ [][NextStatus]_vars

(* ----------------------- requests served concurrently ------------------ *)

\* Nothing in views.py or serializers.py puts is_valid() and save() of a request in
\* one transaction or under a lock, so another request's queries can run between
\* them: a worker serves a request in two steps, Validate and Save.

\* bodies with valid customer data and one line of the item the requests contend for
RaceData ==
    {FullCustomer @@ ("order_items" :> JsonList(<<Entry(PizzaId, c)>>)) :
        c \in 1..MaxCount}

RaceRequests == RequestsOf(RaceData, {"POST", "PUT"})

\* the number of orders the workers between Validate and Save are about to insert
Inserting ==
    Cardinality({w \in Workers : worker[w].pc = "validated"
                                    /\ worker[w].request.method = "POST"})

\* history: the sum of count the orders other than `instance` hold of the item of the
\* request's line, in the tables as they are now
SeenBy(req, instance) ==
    Held(IF instance \in 1..Len(OrderItem) THEN [OrderItem EXCEPT ![instance] = <<>>]
         ELSE OrderItem,
         req.data.order_items.value[1].item_id)

\* worker w takes a request and runs the permission check, get_object() and
\* serializer.is_valid() against the tables as they are now
Validate(w) ==
    /\ worker[w].pc = "idle"
    /\ \E req \in RaceRequests :
          /\ req.method = "POST" => Len(Order) + Inserting < MaxOrders
          /\ LET instance == IF req.method = "POST" THEN 0 ELSE req.pk
                 code == IF ~has_permission(req) THEN 401
                         ELSE IF instance \notin 0..Len(Order) THEN 404
                         ELSE LET errors == Errors(req.data, instance,
                                                   req.method = "PATCH")
                              IN  IF errors = {} THEN 0
                                  ELSE IF Unhandled(errors) THEN 500 ELSE 400
             IN  worker' = [worker EXCEPT ![w] =
                    [pc |-> IF code = 0 THEN "validated" ELSE "answered",
                     request |-> req, seen |-> SeenBy(req, instance), code |-> code]]
    /\ UNCHANGED <<Item, Order, OrderItem, request, response, before, stdout,
                   price_at_commit>>

\* worker w runs serializer.save() with the data it validated, against the tables as
\* they are by now
Save(w) ==
    /\ worker[w].pc = "validated"
    /\ LET req == worker[w].request
       IN  /\ IF req.method = "POST" THEN create(validated_data(req.data))
              ELSE update(req.pk, validated_data(req.data))
           /\ worker' = [worker EXCEPT ![w].pc = "answered",
                                       ![w].code = IF req.method = "POST" THEN 201
                                                   ELSE 200]
    /\ UNCHANGED <<Item, request, response, before>>

\* the response of worker w leaves
Finish(w) ==
    /\ worker[w].pc = "answered"
    /\ worker' = [worker EXCEPT ![w] = IdleWorker]
    /\ stdout' = <<>>
    /\ UNCHANGED <<Item, Order, OrderItem, request, response, before, price_at_commit>>

NextRace == \E w \in Workers : Validate(w) \/ Save(w) \/ Finish(w)

SpecRace == Init /\ [][NextRace]_vars

(* ------------------------------ properties ---------------------------- *)

Done == response.code # 0
Accepted == response.code \in {200, 201}
Rejected == response.code = 400
IsUpdate == request.method \in {"PUT", "PATCH"}
Supplies(k) == k \in DOMAIN request.data
SuppliesList == Supplies("order_items") /\ request.data.order_items.type = "list"

\* the entries of the request's order_items list, as rows (none when it has no list)
RequestedRows ==
    IF SuppliesList
    THEN [k \in 1..Len(request.data.order_items.value) |->
            [item |-> request.data.order_items.value[k].item_id,
             count |-> request.data.order_items.value[k].count]]
    ELSE <<>>

\* the sum over rows of (current unit price) x count
PriceSum(rows) ==
    SumOver([k \in 1..Len(rows) |-> Item[rows[k].item].price * rows[k].count], Len(rows))

CustomerValid ==
    /\ \A k \in {"customer_name", "phone", "address"} :
          Supplies(k) => request.data[k] # ""
    /\ request.method # "PATCH" =>
          \A k \in {"customer_name", "phone", "address"} : Supplies(k)

\* C1: stock conservation: in every state reached by commits made one at a time, for
\* every item the sum of count over all stored line items referencing it is at most
\* the item's available quantity, whatever the shape of the accepted requests.
C1_StockConservation ==
    \A i \in DOMAIN Item : Held(OrderItem, i) <= Item[i].quantity

\* C2: carve-back on self-update: when the order holds exactly one line (count c) of
\* an item of quantity q and the other orders hold o of it, an otherwise valid Update
\* asking one line of count r of that item is accepted exactly when r <= q - o, and is
\* refused with the insufficient-stock error otherwise.
C2_CarveBack ==
    (/\ Done /\ IsUpdate /\ response.code # 404
     /\ CustomerValid
     /\ Len(RequestedRows) = 1
     /\ RequestedRows[1].item \in DOMAIN Item
     /\ RequestedRows[1].count >= 1
     /\ Len(RowsOfItem(before.OrderItem[request.pk], RequestedRows[1].item)) = 1)
    => LET i == RequestedRows[1].item
           r == RequestedRows[1].count
           q == Item[i].quantity
           o == Held([before.OrderItem EXCEPT ![request.pk] = <<>>], i)
       IN  /\ (r <= q - o) <=> response.code = 200
           /\ (r > q - o) <=> (response.code = 400
                                /\ response.errors
                                      = {<<"order_items", "stock", Item[i].name>>})

\* C2 witness: with q = 50, o = 35, c = 10 the Update to r = 15 has been accepted
C2_Witness ==
    /\ Done /\ IsUpdate /\ response.code = 200
    /\ request.pk = 1
    /\ before.OrderItem = << <<[item |-> PizzaId, count |-> HeldCount]>>,
                             <<[item |-> PizzaId, count |-> OtherHeldCount]>> >>
    /\ Item[PizzaId].quantity = TestPizzaQuantity
    /\ RequestedRows = <<[item |-> PizzaId,
                          count |-> TestPizzaQuantity - OtherHeldCount]>>
    /\ OrderItem[1] = RequestedRows

\* C3: after an accepted Create the new order is stored with exactly the request's
\* lines, and its total_price is the sum over those lines of (the item's unit price
\* at commit) x count.
C3_CreateTotal ==
    (Done /\ request.method = "POST" /\ response.code = 201)
    => /\ response.pk = Len(before.Order) + 1
       /\ Len(Order) = response.pk
       /\ OrderItem[response.pk] = RequestedRows
       /\ Order[response.pk].total_price = PriceSum(RequestedRows)

\* C3 witness: Pizza 10.99 x 2 + Burger 8.99 x 1 was created: 30.97, two line items
C3_Witness ==
    /\ Done /\ request.method = "POST" /\ response.code = 201
    /\ Item[PizzaId].price = PizzaPrice /\ Item[BurgerId].price = BurgerPrice
    /\ RequestedRows = <<[item |-> PizzaId, count |-> 2], [item |-> BurgerId, count |-> 1]>>
    /\ Len(OrderItem[response.pk]) = 2
    /\ Order[response.pk].total_price = 3097

\* C4: price freeze: a stored total_price changes only in the step that commits an
\* Update of that very order with a line-item set; in particular no change of an
\* item's unit price, however often repeated, alters any order's total_price.
C4_PriceFreeze ==
    [][\A o \in 1..Len(Order) :
          Order'[o].total_price # Order[o].total_price
          => /\ Pending /\ IsUpdate /\ request.pk = o
             /\ SuppliesList
             /\ response'.code = 200]_vars

\* C4 witness: an order with line items whose stored total_price is no longer what
\* the current unit prices would give
C4_Witness ==
    \E o \in 1..Len(Order) :
        /\ OrderItem[o] # <<>>
        /\ Order[o].total_price # PriceSum(OrderItem[o])

\* C5: replace-not-merge: after an accepted Update that supplies a line-item set, the
\* order's stored line items are exactly the new set, as many as the new set has, and
\* total_price is recomputed from the new set alone.
C5_ReplaceNotMerge ==
    (Done /\ IsUpdate /\ response.code = 200 /\ SuppliesList)
    => /\ OrderItem[request.pk] = RequestedRows
       /\ Len(OrderItem[request.pk]) = Len(request.data.order_items.value)
       /\ Order[request.pk].total_price = PriceSum(RequestedRows)

\* C5 witness: an order that held two line items now holds the one line of another
\* item that the Update supplied
C5_Witness ==
    /\ Done /\ IsUpdate /\ response.code = 200 /\ SuppliesList
    /\ Len(before.OrderItem[request.pk]) = 2
    /\ Len(RequestedRows) = 1
    /\ \A k \in 1..2 : before.OrderItem[request.pk][k].item # RequestedRows[1].item
    /\ before.Order[request.pk].total_price # Order[request.pk].total_price

\* C6: all-or-nothing on failure: when a Create or Update is refused by field
\* validation or by the stock check, the Order and OrderItem tables are exactly what
\* they were before the request.
C6_AllOrNothing ==
    (Done /\ Rejected) => (Order = before.Order /\ OrderItem = before.OrderItem)

\* C6 witness: an Update of an order holding line items was refused for stock
C6_Witness ==
    /\ Done /\ Rejected /\ IsUpdate
    /\ <<"order_items", "stock", "Pizza">> \in response.errors
    /\ before.OrderItem[request.pk] # <<>>

\* C7: a Create or Update whose order_items is an explicit empty list, or null, is
\* refused; an Update with an empty list never clears the order's line items.
C7_EmptyOrNullRejected ==
    (/\ Done /\ response.code # 404
     /\ Supplies("order_items")
     /\ (request.data.order_items.type = "null" \/ RequestedRows = <<>>))
    => /\ Rejected
       /\ OrderItem = before.OrderItem

\* C8: every order an accepted Create produces owns at least one line item; a Create
\* without the order_items field is refused and stores no order.
C8_CreateHasLineItem ==
    /\ (Done /\ request.method = "POST" /\ response.code = 201)
          => Len(OrderItem[response.pk]) >= 1
    /\ (Done /\ request.method = "POST" /\ ~Supplies("order_items"))
          => (Rejected /\ Order = before.Order)

C10_PartialUpdate ==
    (Done /\ IsUpdate /\ response.code = 200 /\ ~Supplies("order_items"))
    => /\ OrderItem = before.OrderItem
       /\ Len(Order) = Len(before.Order)
       /\ \A o \in 1..Len(Order) : o # request.pk => Order[o] = before.Order[o]
       /\ Order[request.pk].total_price = before.Order[request.pk].total_price
       /\ Order[request.pk].status = before.Order[request.pk].status
       /\ \A k \in {"customer_name", "phone", "address"} :
             Order[request.pk][k] =
                IF Supplies(k) THEN request.data[k] ELSE before.Order[request.pk][k]

\* C10 witness: a PATCH carrying only a new customer_name was accepted on an order
\* that holds line items, while another order exists
C10_Witness ==
    /\ Done /\ request.method = "PATCH" /\ response.code = 200
    /\ DOMAIN request.data = {"customer_name"}
    /\ request.data.customer_name # before.Order[request.pk].customer_name
    /\ before.OrderItem[request.pk] # <<>>
    /\ Len(Order) = 2

\* C11: duplicate item ids in one Create are not merged: for every item, the new order
\* stores as many line items as the accepted request has lines naming it, each with
\* its own count and in the request's order, and total_price counts every line.
C11_DuplicatesKept ==
    (Done /\ request.method = "POST" /\ response.code = 201)
    => /\ \A i \in DOMAIN Item :
             /\ Len(RowsOfItem(OrderItem[response.pk], i))
                   = Cardinality({k \in 1..Len(RequestedRows) : RequestedRows[k].item = i})
             /\ RowsOfItem(OrderItem[response.pk], i) = RowsOfItem(RequestedRows, i)
       /\ Order[response.pk].total_price
             = SumOver([k \in 1..Len(RequestedRows) |->
                           price_at_commit[response.pk][RequestedRows[k].item]
                              * RequestedRows[k].count],
                       Len(RequestedRows))

\* C11 witness: {Pizza,1},{Pizza,2} was created at 10.99: 2 line items, 3 x 10.99
C11_Witness ==
    /\ Done /\ request.method = "POST" /\ response.code = 201
    /\ Item[PizzaId].price = PizzaPrice
    /\ RequestedRows = <<[item |-> PizzaId, count |-> 1], [item |-> PizzaId, count |-> 2]>>
    /\ Len(OrderItem[response.pk]) = 2
    /\ OrderItem[response.pk][1].count = 1 /\ OrderItem[response.pk][2].count = 2
    /\ Order[response.pk].total_price = 3 * PizzaPrice

\* C12: stock check on Create: an otherwise valid Create with a single line (item i,
\* count r >= 1) is accepted exactly when r is at most the item's quantity minus the
\* sum of count over all line items stored for i, and is otherwise refused with the
\* insufficient-stock error that names the item.
C12_CreateStockCheck ==
    (/\ Done /\ request.method = "POST"
     /\ CustomerValid
     /\ Len(RequestedRows) = 1
     /\ RequestedRows[1].item \in DOMAIN Item
     /\ RequestedRows[1].count >= 1)
    => LET i == RequestedRows[1].item
           r == RequestedRows[1].count
           left == Item[i].quantity - Held(before.OrderItem, i)
       IN  /\ (r <= left) <=> response.code = 201
           /\ (r > left) <=> (response.code = 400
                               /\ response.errors
                                     = {<<"order_items", "stock", Item[i].name>>})

\* C12 witness: 51 Pizza of 50 with nothing consumed was refused, naming Pizza
C12_Witness ==
    /\ Done /\ request.method = "POST" /\ Rejected
    /\ RequestedRows = <<[item |-> PizzaId, count |-> ExceedingCount]>>
    /\ Item[PizzaId].quantity = TestPizzaQuantity
    /\ Held(before.OrderItem, PizzaId) = 0
    /\ response.errors = {<<"order_items", "stock", "Pizza">>}

\* C13: a Create or Update in which any line names an item id that is not in the
\* catalog is refused with a client error, the field's item-not-found error when
\* validation is reached, whatever the other lines are, and nothing is persisted.
C13_UnknownItemRejected ==
    (/\ Done /\ request.method \in {"POST", "PUT", "PATCH"}
     /\ \E k \in 1..Len(RequestedRows) : RequestedRows[k].item \notin DOMAIN Item)
    => /\ response.code \in {400, 401, 404}
       /\ response.code = 400 => <<"order_items", "does_not_exist">> \in response.errors
       /\ Order = before.Order
       /\ OrderItem = before.OrderItem

\* C13 witness: an Update of a stored order with a valid Pizza line beside a line of
\* the unknown item 999 was refused
C13_Witness ==
    /\ Done /\ IsUpdate /\ Rejected
    /\ request.pk \in 1..Len(Order)
    /\ Len(RequestedRows) = 2
    /\ RequestedRows[1].item = PizzaId
    /\ RequestedRows[2].item = MissingItemId
    /\ <<"order_items", "does_not_exist">> \in response.errors

\* C14: line-item count is strictly positive: a Create or Update with any line of
\* count <= 0 is refused and persists nothing, so every stored line item has
\* count >= 1.
C14_PositiveCount ==
    /\ \A o \in 1..Len(OrderItem) : \A k \in 1..Len(OrderItem[o]) :
          OrderItem[o][k].count >= 1
    /\ (/\ Done /\ request.method \in {"POST", "PUT", "PATCH"}
        /\ \E k \in 1..Len(RequestedRows) : RequestedRows[k].count <= 0)
          => /\ response.code \in {400, 401, 404}
             /\ response.code = 400 => <<"order_items", "count">> \in response.errors
             /\ Order = before.Order
             /\ OrderItem = before.OrderItem

\* C14 witness: an Update of an order holding line items, asking count 0 of Pizza,
\* was refused for the count
C14_Witness ==
    /\ Done /\ IsUpdate /\ Rejected
    /\ request.pk \in 1..Len(Order)
    /\ OrderItem[request.pk] # <<>>
    /\ RequestedRows = <<[item |-> PizzaId, count |-> 0]>>
    /\ response.errors = {<<"order_items", "count">>}

C16_TotalPriceInvariant ==
    \A o \in 1..Len(Order) :
        Order[o].total_price # NullPrice
        => Order[o].total_price
              = SumOver([k \in 1..Len(OrderItem[o]) |->
                            price_at_commit[o][OrderItem[o][k].item] * OrderItem[o][k].count],
                        Len(OrderItem[o]))

\* the entry of a worker's request, as a row
WorkerRow(w) ==
    [item |-> worker[w].request.data.order_items.value[1].item_id,
     count |-> worker[w].request.data.order_items.value[1].count]

\* worker w validated a Create and saved it
Created(w) ==
    /\ worker[w].pc = "answered" /\ worker[w].code = 201
    /\ worker[w].request.method = "POST"

\* a worker whose request passed validation asked at most what the other orders left
\* of the item in the tables its validation read
WithinSeenStock(w) ==
    WorkerRow(w).count <= Item[WorkerRow(w).item].quantity - worker[w].seen

\* C17: oversell race: a commit is accepted on the tables its validation read, and
\* nothing checks again when it persists: every request that passed validation asked
\* at most what those tables left of the item, and its save step always stores its
\* line and answers 201 or 200, whatever was stored in between; so when two commits
\* validate before either persists, both are accepted and the item is oversold.
C17_OversellRace ==
    /\ [](\A w \in Workers :
             (worker[w].pc = "validated"
                 \/ (worker[w].pc = "answered" /\ worker[w].code \in {200, 201}))
             => WithinSeenStock(w))
    /\ [][\A w \in Workers :
             (worker[w].pc = "validated" /\ worker'[w] # worker[w])
             => /\ worker'[w].pc = "answered"
                /\ worker'[w].code \in {200, 201}
                /\ OrderItem'[IF worker[w].request.pk = 0 THEN Len(Order) + 1
                               ELSE worker[w].request.pk] = <<WorkerRow(w)>>]_vars

\* C17 witness: two Creates of Pizza, each validated while no Pizza was stored, and
\* both saved: more Pizza is stored than there is
C17_Witness ==
    /\ \A w \in Workers :
          /\ Created(w)
          /\ WorkerRow(w).item = PizzaId
          /\ worker[w].seen = 0
          /\ WorkerRow(w).count <= Item[PizzaId].quantity
    /\ Held(OrderItem, PizzaId) = WorkerRow(1).count + WorkerRow(2).count
    /\ Held(OrderItem, PizzaId) > Item[PizzaId].quantity

\* what one save of the stored order o has to print: the SMS line to the order's
\* phone exactly when total_price is not NULL and strictly above 50.00
Notified(o) ==
    IF Order[o].total_price # NullPrice /\ Order[o].total_price > NotifyThreshold
    THEN <<Order[o].phone>> ELSE <<>>

\* C18: the notification hook fires on an Order save exactly when the total_price of
\* that save is not NULL and strictly above 50: an accepted Create fires it once
\* when the computed total exceeds 50 and not otherwise (a total of exactly 50, and
\* the first insert with NULL, fire nothing), every accepted Update fires it when the
\* resulting total exceeds 50, also when it changes no line item, and a request that
\* is not accepted fires nothing.
C18_NotificationHook ==
    Done =>
       /\ (request.method = "POST" /\ response.code = 201)
             => stdout = Notified(response.pk)
       /\ (IsUpdate /\ response.code = 200) => stdout = Notified(request.pk)
       /\ ~Accepted => stdout = <<>>
       /\ Len(stdout) <= 1

\* C18 witness: a PATCH of the phone alone, on an order whose stored total is above
\* 50, fired the hook again, to the new phone
C18_Witness ==
    /\ Done /\ request.method = "PATCH" /\ response.code = 200
    /\ ~Supplies("order_items")
    /\ before.Order[request.pk].total_price > NotifyThreshold
    /\ before.Order[request.pk].phone # request.data.phone
    /\ OrderItem = before.OrderItem
    /\ stdout = <<request.data.phone>>

\* C19: consumption ignores order status: an otherwise valid single-line request is
\* accepted exactly when its count is at most the item's quantity minus the sum of
\* count over the line items of all other orders, whatever their status, so a status
\* change never alters an outcome and a canceled order keeps holding its stock.
C19_StatusIgnored ==
    (/\ Done /\ request.method \in {"POST", "PUT"} /\ response.code # 404
     /\ CustomerValid
     /\ Len(RequestedRows) = 1
     /\ RequestedRows[1].item \in DOMAIN Item
     /\ RequestedRows[1].count >= 1)
    => LET i == RequestedRows[1].item
           others == [o \in 1..Len(before.OrderItem) |->
                         IF o = request.pk THEN <<>> ELSE before.OrderItem[o]]
       IN  Accepted <=> RequestedRows[1].count <= Item[i].quantity - Held(others, i)

\* C19 witness: a Create of 2 Pizza was refused for stock while the only order holding
\* Pizza, all 50 of it, is canceled
C19_Witness ==
    /\ Done /\ request.method = "POST" /\ Rejected
    /\ RequestedRows = <<[item |-> PizzaId, count |-> 2]>>
    /\ response.errors = {<<"order_items", "stock", "Pizza">>}
    /\ \E o \in 1..Len(Order) :
          /\ Order[o].status = "canceled"
          /\ Held(<<OrderItem[o]>>, PizzaId) = Item[PizzaId].quantity
          /\ Held(OrderItem, PizzaId) = Item[PizzaId].quantity

\* C20: stock validation on Update always ends in acceptance or in a validation or
\* stock refusal, whatever the order holds: no Update is answered with an unhandled
\* error, in particular not one of an order that holds two or more line items of
\* an item the request names.
C20_UpdateNeverFails ==
    (Done /\ IsUpdate)
    => /\ response.code \in {200, 400, 401, 404}
       /\ \A e \in response.errors : e[2] # "MultipleObjectsReturned"

====
